---------------------------- MODULE Spec2Model ----------------------------
(***************************************************************************)
(* Team Requirement Analyzer (src/team_size.py): a Streamlit script that   *)
(* is re-run from top to bottom on every widget interaction.  One run      *)
(* reads the ten sidebar widgets, evaluates the staffing formulas and      *)
(* renders tiles, tables, charts and two downloads.                        *)
(*                                                                         *)
(* Numbers.  The script computes with Python floats.  A float is modelled  *)
(* by the rational number it stands for, <<n, d>> with d > 0 in lowest     *)
(* terms, and +, -, *, / are exact; the literals 0.11 and 0.78 are 11/100  *)
(* and 78/100.  The rounding of binary64 arithmetic is not modelled, so    *)
(* every statement below is a statement about the formulas in exact        *)
(* arithmetic.  int(x) and x % 1 are modelled by what they do to the       *)
(* value (truncation, fractional part), and f"{k}" of an integer by its    *)
(* decimal digits.                                                         *)
(***************************************************************************)
EXTENDS Integers, Sequences, FiniteSets, TLC

VARIABLES
    inp,    \* the values the ten sidebar widgets hold
    out,    \* everything the latest run of the script computed and rendered
    now,    \* the wall clock, in seconds, read by pd.Timestamp.now()
    first   \* history: the inputs and the output of the session's first run

vars == <<inp, out, now, first>>

\* The last clock value the model explores.
MaxClock == 2

-----------------------------------------------------------------------------
(* Exact rational arithmetic standing for Python's float operators.        *)

RECURSIVE GCD(_, _)
GCD(a, b) == IF b = 0 THEN a ELSE GCD(b, a % b)

Abs(a) == IF a < 0 THEN -a ELSE a

\* n/d in lowest terms (d > 0).
Dec(n, d) == LET g == GCD(Abs(n), d) IN IF n = 0 THEN <<0, 1>> ELSE <<n \div g, d \div g>>

\* An int or a whole-valued float.
R(k) == <<k, 1>>

\* x * y
RMul(x, y) ==
    LET g1 == GCD(Abs(x[1]), y[2])
        g2 == GCD(Abs(y[1]), x[2])
    IN  IF x[1] = 0 \/ y[1] = 0 THEN <<0, 1>>
        ELSE <<(x[1] \div g1) * (y[1] \div g2), (x[2] \div g2) * (y[2] \div g1)>>

\* x / y for y > 0 (every divisor of the script is a widget with a positive minimum)
RDiv(x, y) == RMul(x, <<y[2], y[1]>>)

\* x + y
RAdd(x, y) ==
    LET g == GCD(x[2], y[2])
    IN  Dec(x[1] * (y[2] \div g) + y[1] * (x[2] \div g), (x[2] \div g) * y[2])

\* x - y
RSub(x, y) == RAdd(x, <<-y[1], y[2]>>)

\* x <= y
RLe(x, y) == x[1] * y[2] <= y[1] * x[2]

\* x > 0
RPos(x) == x[1] > 0

\* int(x): truncation toward zero
PyInt(x) == IF x[1] >= 0 THEN x[1] \div x[2] ELSE -((-x[1]) \div x[2])

\* x % 1: the result has the sign of the divisor 1, so it lies in [0, 1)
PyMod1(x) == Dec(x[1] % x[2], x[2])

\* f"{k}" for an integer k >= 0: its decimal digits
Digit(k) == CASE k = 0 -> "0" [] k = 1 -> "1" [] k = 2 -> "2" [] k = 3 -> "3"
              [] k = 4 -> "4" [] k = 5 -> "5" [] k = 6 -> "6" [] k = 7 -> "7"
              [] k = 8 -> "8" [] k = 9 -> "9"

RECURSIVE DecStr(_)
DecStr(k) == IF k < 10 THEN <<Digit(k)>> ELSE Append(DecStr(k \div 10), Digit(k % 10))

-----------------------------------------------------------------------------
(* The sidebar widgets: default value, minimum and maximum of each.        *)

Defaults ==
    [loan_amt_current      |-> R(10000000),
     pf_percentage         |-> Dec(118, 10),
     roi_per_day           |-> R(1),
     avg_ticket_size       |-> R(30000),
     avg_tenure            |-> 25,
     no_of_days            |-> 30,
     loan_amt_t1           |-> R(8000000),
     loan_amt_t2           |-> R(5000000),
     sanction_sales_target |-> R(250000),
     collection_target     |-> R(8000000)]

\* Values a user types into each widget.  Some lie outside the widget's range.
LoanAmtEntries       == {R(-100000), R(0), R(9600000), R(10000000)}
PfPercentageEntries  == {Dec(-1, 10), R(0), Dec(118, 10), R(100), Dec(1001, 10)}
RoiPerDayEntries     == {Dec(-1, 10), R(0), R(1), Dec(101, 10)}
TicketSizeEntries    == {R(0), R(7000), R(30000)}
TenureEntries        == {0, 1, 25}
NoOfDaysEntries      == {0, 30, 31, 32}
LoanAmtT1Entries     == {R(-100000), R(0), R(8000000)}
LoanAmtT2Entries     == {R(-100000), R(0), R(5000000)}
SanctionEntries      == {R(0), R(8000), R(250000)}
CollectionEntries    == {R(0), R(8000000), R(9862500)}

-----------------------------------------------------------------------------
(* Calculations, in the order of the script.  i is the record of inputs.   *)

\* Variant: the fee percentage is used as a fraction
pf_amount_not_percent(i) == RMul(i.pf_percentage, i.loan_amt_current)

pf_amount(i) == RMul(RDiv(i.pf_percentage, R(100)), i.loan_amt_current)

amt_in_bank(i) == RSub(i.loan_amt_current, pf_amount(i))

\* Variant: the interest is not scaled by the disbursement
repayment_amt_interest_unscaled(i) ==
    RAdd(i.loan_amt_current, RMul(RDiv(i.roi_per_day, R(100)), R(i.avg_tenure)))

repayment_amt(i) ==
    RAdd(i.loan_amt_current,
         RMul(RMul(i.loan_amt_current, RDiv(i.roi_per_day, R(100))), R(i.avg_tenure)))

no_of_loans(i) == RDiv(i.loan_amt_current, i.avg_ticket_size)

no_sanction_sales(i) ==
    RDiv(RDiv(i.loan_amt_current, R(i.no_of_days)), i.sanction_sales_target)

interest_current(i) ==
    RMul(RMul(i.loan_amt_current, RDiv(i.roi_per_day, R(100))), R(i.avg_tenure))

interest_t1(i) ==
    RMul(RMul(i.loan_amt_t1, RDiv(i.roi_per_day, R(100))), R(i.avg_tenure))

interest_t2(i) ==
    RMul(RMul(i.loan_amt_t2, RDiv(i.roi_per_day, R(100))), R(i.avg_tenure))

collection_current(i) == RMul(RAdd(i.loan_amt_current, interest_current(i)), Dec(11, 100))

\* Variant: the weight the labels state for T-1
collection_t1_label_weight(i) == RMul(RAdd(i.loan_amt_t1, interest_t1(i)), Dec(75, 100))

collection_t1(i) == RMul(RAdd(i.loan_amt_t1, interest_t1(i)), Dec(78, 100))

\* Variant: the weight the labels state for T-2
collection_t2_label_weight(i) == RMul(RAdd(i.loan_amt_t2, interest_t2(i)), Dec(15, 100))

collection_t2(i) == RMul(RAdd(i.loan_amt_t2, interest_t2(i)), Dec(11, 100))

total_collection_required(i) ==
    RAdd(RAdd(collection_current(i), collection_t1(i)), collection_t2(i))

no_collection(i) == RDiv(total_collection_required(i), i.collection_target)

-----------------------------------------------------------------------------
(* What the run renders.  Only the parts of each element that show a       *)
(* count, a headcount, a collection percentage or the timestamp are kept;  *)
(* the currency strings (f"{x/100000:.2f}L", f"{x:,.0f}") are left out.    *)

\* The values one run computes from the inputs i
Calculations(i) ==
    [pf_amount                 |-> pf_amount(i),
     amt_in_bank               |-> amt_in_bank(i),
     repayment_amt             |-> repayment_amt(i),
     no_of_loans               |-> no_of_loans(i),
     no_sanction_sales         |-> no_sanction_sales(i),
     interest_current          |-> interest_current(i),
     interest_t1               |-> interest_t1(i),
     interest_t2               |-> interest_t2(i),
     collection_current        |-> collection_current(i),
     collection_t1             |-> collection_t1(i),
     collection_t2             |-> collection_t2(i),
     total_collection_required |-> total_collection_required(i),
     no_collection             |-> no_collection(i)]

\* Below, c is the record of computed values (the script's variables).

\* Variant: the loan count rounded up like a headcount
tile_loans_rounded_up(c) ==
    DecStr(PyInt(c.no_of_loans) + (IF RPos(PyMod1(c.no_of_loans)) THEN 1 ELSE 0))

\* "Number of Loans" metric tile
tile_loans(c) == DecStr(PyInt(c.no_of_loans))

\* Variant: the collection headcount is truncated in the tile
tile_total_staff_collection_truncated(c) ==
    DecStr(PyInt(c.no_sanction_sales)
           + (IF RPos(PyMod1(c.no_sanction_sales)) THEN 1 ELSE 0)
           + PyInt(c.no_collection))

\* "Total Staff Required" metric tile
tile_total_staff(c) ==
    DecStr(PyInt(c.no_sanction_sales)
           + (IF RPos(PyMod1(c.no_sanction_sales)) THEN 1 ELSE 0)
           + PyInt(c.no_collection)
           + (IF RPos(PyMod1(c.no_collection)) THEN 1 ELSE 0))

\* "Rounded Up" line of the Sanction & Sales Team box
info_sanction_rounded_up(c) ==
    DecStr(PyInt(c.no_sanction_sales)
           + (IF RPos(PyMod1(c.no_sanction_sales)) THEN 1 ELSE 0))

\* "Rounded Up" line of the Collection Team box
info_collection_rounded_up(c) ==
    DecStr(PyInt(c.no_collection)
           + (IF RPos(PyMod1(c.no_collection)) THEN 1 ELSE 0))

\* The percentage each label states, in the order current, T-1, T-2.
\* 'Current Month (11%)', 'T-1 Month (78%)', 'T-2 Month (11%)'
breakdown_period_pct == <<11, 78, 11>>

\* 'Percentage': ['10%', '75%', '15%']
breakdown_percentage_pct == <<10, 75, 15>>

\* 'Current (10%)', 'T-1 (75%)', 'T-2 (15%)', with plotly and without
pie_period_pct == <<10, 75, 15>>

\* 'Collection from Current (10%)', 'Collection from T-1 (75%)', 'Collection from T-2 (15%)'
summary_collection_pct == <<10, 75, 15>>

\* '- Current Month (10%)', '- T-1 Month (75%)', '- T-2 Month (15%)'
report_collection_pct == <<10, 75, 15>>

\* Variant: >= in place of >, so a whole headcount is incremented too
team_rounded_always_incremented(c) ==
    [sanction   |-> PyInt(c.no_sanction_sales) + 1,
     collection |-> PyInt(c.no_collection) + 1]

\* The dict behind the bar chart
team_rounded(c) ==
    [sanction   |-> PyInt(c.no_sanction_sales)
                    + (IF RPos(PyMod1(c.no_sanction_sales)) THEN 1 ELSE 0),
     collection |-> PyInt(c.no_collection)
                    + (IF RPos(PyMod1(c.no_collection)) THEN 1 ELSE 0)]

\* Rows of the summary table (and of the CSV made from it); tr is team_rounded
summary_data(c, tr) ==
    [loans              |-> DecStr(PyInt(c.no_of_loans)),
     sanction_rounded   |-> DecStr(tr.sanction),
     collection_rounded |-> DecStr(tr.collection),
     total_staff        |-> DecStr(tr.sanction + tr.collection),
     collection_pct     |-> summary_collection_pct]

\* Lines of the text report; t is pd.Timestamp.now()
detailed_report(c, tr, t) ==
    [generated_on   |-> t,
     loans          |-> DecStr(PyInt(c.no_of_loans)),
     sanction       |-> DecStr(tr.sanction),
     collection     |-> DecStr(tr.collection),
     total_staff    |-> DecStr(tr.sanction + tr.collection),
     collection_pct |-> report_collection_pct]

\* Everything rendered from the computed values c at time t
Render(c, t) ==
    LET tr == team_rounded(c)
    IN  [calc                       |-> c,
         tile_loans                 |-> tile_loans(c),
         tile_total_staff           |-> tile_total_staff(c),
         info_sanction_rounded_up   |-> info_sanction_rounded_up(c),
         info_collection_rounded_up |-> info_collection_rounded_up(c),
         breakdown_period_pct       |-> breakdown_period_pct,
         breakdown_percentage_pct   |-> breakdown_percentage_pct,
         pie_period_pct             |-> pie_period_pct,
         team_rounded               |-> tr,
         summary                    |-> summary_data(c, tr),
         report                     |-> detailed_report(c, tr, t)]

\* Variant: the days in the month are taken from the clock
Script_days_from_clock(i, t) ==
    Render(Calculations([i EXCEPT !.no_of_days = 30 + t]), t)

\* One run of the script on inputs i at time t
Script(i, t) == Render(Calculations(i), t)

-----------------------------------------------------------------------------
(* The session.                                                            *)

Init ==
    /\ inp = Defaults
    /\ now = 0
    /\ out = Script(Defaults, 0)
    /\ first = [inp |-> Defaults, out |-> Script(Defaults, 0)]

\* Streamlit re-runs the script with the widgets holding i
Rerun(i) ==
    /\ inp' = i
    /\ out' = Script(i, now)
    /\ UNCHANGED <<now, first>>

\* The user commits v in a widget; a value outside [min_value, max_value] is
\* not accepted, and an unchanged value triggers no run.
Set_loan_amt_current ==
    \E v \in LoanAmtEntries :
        /\ RLe(R(0), v)
        /\ v # inp.loan_amt_current
        /\ Rerun([inp EXCEPT !.loan_amt_current = v])

Set_pf_percentage ==
    \E v \in PfPercentageEntries :
        /\ RLe(R(0), v) /\ RLe(v, R(100))
        /\ v # inp.pf_percentage
        /\ Rerun([inp EXCEPT !.pf_percentage = v])

Set_roi_per_day ==
    \E v \in RoiPerDayEntries :
        /\ RLe(R(0), v) /\ RLe(v, R(10))
        /\ v # inp.roi_per_day
        /\ Rerun([inp EXCEPT !.roi_per_day = v])

Set_avg_ticket_size ==
    \E v \in TicketSizeEntries :
        /\ RLe(R(1), v)
        /\ v # inp.avg_ticket_size
        /\ Rerun([inp EXCEPT !.avg_ticket_size = v])

Set_avg_tenure ==
    \E v \in TenureEntries :
        /\ 1 <= v
        /\ v # inp.avg_tenure
        /\ Rerun([inp EXCEPT !.avg_tenure = v])

Set_no_of_days ==
    \E v \in NoOfDaysEntries :
        /\ 1 <= v /\ v <= 31
        /\ v # inp.no_of_days
        /\ Rerun([inp EXCEPT !.no_of_days = v])

Set_loan_amt_t1 ==
    \E v \in LoanAmtT1Entries :
        /\ RLe(R(0), v)
        /\ v # inp.loan_amt_t1
        /\ Rerun([inp EXCEPT !.loan_amt_t1 = v])

Set_loan_amt_t2 ==
    \E v \in LoanAmtT2Entries :
        /\ RLe(R(0), v)
        /\ v # inp.loan_amt_t2
        /\ Rerun([inp EXCEPT !.loan_amt_t2 = v])

Set_sanction_sales_target ==
    \E v \in SanctionEntries :
        /\ RLe(R(1), v)
        /\ v # inp.sanction_sales_target
        /\ Rerun([inp EXCEPT !.sanction_sales_target = v])

Set_collection_target ==
    \E v \in CollectionEntries :
        /\ RLe(R(1), v)
        /\ v # inp.collection_target
        /\ Rerun([inp EXCEPT !.collection_target = v])

\* A click on "Download Summary as CSV": the script runs again, inputs unchanged
Download_csv == Rerun(inp)

\* A click on "Download Detailed Report": the script runs again, inputs unchanged
Download_report == Rerun(inp)

\* Time passes
Tick ==
    /\ now < MaxClock
    /\ now' = now + 1
    /\ UNCHANGED <<inp, out, first>>

Next ==
    \/ Set_loan_amt_current
    \/ Set_pf_percentage
    \/ Set_roi_per_day
    \/ Set_avg_ticket_size
    \/ Set_avg_tenure
    \/ Set_no_of_days
    \/ Set_loan_amt_t1
    \/ Set_loan_amt_t2
    \/ Set_sanction_sales_target
    \/ Set_collection_target
    \/ Download_csv
    \/ Download_report
    \/ Tick

Spec == Init /\ [][Next]_vars

-----------------------------------------------------------------------------
(* Vocabulary of the properties.                                           *)

\* k is the smallest integer >= x
IsCeiling(k, x) == k * x[2] >= x[1] /\ (k - 1) * x[2] < x[1]

\* The smallest integer >= x, for x >= 0
Ceiling(x) == CHOOSE k \in 0..(x[1] \div x[2] + 1) : IsCeiling(k, x)

\* k is the largest integer <= x / y, for y > 0
IsFloorOfQuotient(k, x, y) ==
    /\ k * y[1] * x[2] <= x[1] * y[2]
    /\ (k + 1) * y[1] * x[2] > x[1] * y[2]

\* The number a string of decimal digits denotes
DigitValue(ch) == CHOOSE k \in 0..9 : Digit(k) = ch

RECURSIVE StrNat(_)
StrNat(s) ==
    IF Len(s) = 0 THEN 0
    ELSE 10 * StrNat(SubSeq(s, 1, Len(s) - 1)) + DigitValue(s[Len(s)])

\* A run's output without the report's generation timestamp
Computed(o) == [o EXCEPT !.report.generated_on = 0]

-----------------------------------------------------------------------------
\* C1: with every widget at its default, one run yields fee 1,180,000, bank
\* amount 8,820,000, 333 loans, repayment 12,500,000, interest 2,500,000 /
\* 2,000,000 / 1,250,000, collection 1,375,000 / 7,800,000 / 687,500, total
\* collection 9,862,500, a rounded headcount of 2 for sanction and of 2 for
\* collection, and a total headcount of 4.
C1_DefaultScenario ==
    inp = Defaults =>
        /\ out.calc.pf_amount = R(1180000)
        /\ out.calc.amt_in_bank = R(8820000)
        /\ out.tile_loans = <<"3", "3", "3">>
        /\ out.calc.repayment_amt = R(12500000)
        /\ out.calc.interest_current = R(2500000)
        /\ out.calc.interest_t1 = R(2000000)
        /\ out.calc.interest_t2 = R(1250000)
        /\ out.calc.collection_current = R(1375000)
        /\ out.calc.collection_t1 = R(7800000)
        /\ out.calc.collection_t2 = R(687500)
        /\ out.calc.total_collection_required = R(9862500)
        /\ out.team_rounded = [sanction |-> 2, collection |-> 2]
        /\ out.tile_total_staff = <<"4">>

\* The defaults, run again later in the session
C1_Witness ==
    /\ inp = Defaults
    /\ out.report.generated_on > 0
    /\ out.calc.total_collection_required = R(9862500)
    /\ out.tile_total_staff = <<"4">>

\* C2: at every place the rounding rule is written out, for the sanction and
\* for the collection headcount, the rounded value is the smallest integer
\* >= the exact headcount: floor + 1 when the exact headcount has a
\* fractional part, the exact headcount itself when it is whole.
C2_RoundingIsCeiling ==
    LET es == out.calc.no_sanction_sales
        ec == out.calc.no_collection
        Rule(k, x) ==
            /\ IsCeiling(k, x)
            /\ (x[1] % x[2] # 0 => k = (x[1] \div x[2]) + 1)
            /\ (x[1] % x[2] = 0 => R(k) = x)
    IN  /\ RLe(R(0), es) /\ RLe(R(0), ec)
        /\ Rule(out.team_rounded.sanction, es)
        /\ Rule(out.team_rounded.collection, ec)
        /\ Rule(StrNat(out.info_sanction_rounded_up), es)
        /\ Rule(StrNat(out.info_collection_rounded_up), ec)
        /\ \E ks, kc \in 0..StrNat(out.tile_total_staff) :
               /\ ks + kc = StrNat(out.tile_total_staff)
               /\ Rule(ks, es) /\ Rule(kc, ec)

\* 41.67 sanction staff become 42 while exactly 1 collection staff stays 1
C2_Witness ==
    /\ out.calc.no_sanction_sales = Dec(125, 3)
    /\ out.team_rounded.sanction = 42
    /\ out.info_sanction_rounded_up = <<"4", "2">>
    /\ out.calc.no_collection = R(1)
    /\ out.team_rounded.collection = 1
    /\ out.info_collection_rounded_up = <<"1">>

\* C3: the total headcount is the rounded sanction headcount, the rounding of
\* (disbursement / days in month) / sanction target, plus the rounded
\* collection headcount, the rounding of total collection required /
\* collection target; the metric tile, the summary table and the text report
\* show this same number.
C3_TotalHeadcount ==
    LET total == Ceiling(RDiv(RDiv(inp.loan_amt_current, R(inp.no_of_days)),
                              inp.sanction_sales_target))
                 + Ceiling(RDiv(out.calc.total_collection_required, inp.collection_target))
    IN  /\ out.tile_total_staff = DecStr(total)
        /\ out.summary.total_staff = DecStr(total)
        /\ out.report.total_staff = DecStr(total)

\* Both teams are needed and both exact headcounts have a fractional part
C3_Witness ==
    /\ out.calc.no_sanction_sales[2] > 1
    /\ out.calc.no_collection[2] > 1
    /\ out.team_rounded.sanction > 0
    /\ out.team_rounded.collection > 0
    /\ StrNat(out.summary.total_staff) > 40

C6_CollectionComposition ==
    LET growth == RMul(RDiv(inp.roi_per_day, R(100)), R(inp.avg_tenure))
        c == out.calc
    IN  /\ c.interest_current = RMul(growth, inp.loan_amt_current)
        /\ c.interest_t1 = RMul(growth, inp.loan_amt_t1)
        /\ c.interest_t2 = RMul(growth, inp.loan_amt_t2)
        /\ c.collection_current = RMul(Dec(11, 100), RAdd(c.interest_current, inp.loan_amt_current))
        /\ c.collection_t1 = RMul(Dec(78, 100), RAdd(c.interest_t1, inp.loan_amt_t1))
        /\ c.collection_t2 = RMul(Dec(11, 100), RAdd(c.interest_t2, inp.loan_amt_t2))
        /\ RSub(RSub(RSub(c.total_collection_required, c.collection_t2),
                     c.collection_t1), c.collection_current) = R(0)

\* All three periods contribute, with interest, away from the defaults
C6_Witness ==
    /\ inp.loan_amt_current = R(9600000)
    /\ RPos(out.calc.interest_current)
    /\ RPos(out.calc.collection_current)
    /\ RPos(out.calc.collection_t1)
    /\ RPos(out.calc.collection_t2)

\* C7: the loan count shown is floor(disbursement / ticket size), the
\* quotient truncated and never rounded up, and the metric tile, the summary
\* table and the text report show the same integer.
C7_LoanCountIsFloor ==
    /\ IsFloorOfQuotient(StrNat(out.tile_loans), inp.loan_amt_current, inp.avg_ticket_size)
    /\ out.summary.loans = out.tile_loans
    /\ out.report.loans = out.tile_loans

\* 10,000,000 / 7,000 = 1428.57 is shown as 1428
C7_Witness ==
    /\ inp.loan_amt_current = R(10000000)
    /\ inp.avg_ticket_size = R(7000)
    /\ out.calc.no_of_loans = Dec(10000, 7)
    /\ out.tile_loans = <<"1", "4", "2", "8">>
    /\ out.summary.loans = <<"1", "4", "2", "8">>
    /\ out.report.loans = <<"1", "4", "2", "8">>

\* C8: the fee amount is disbursement * fee% / 100, fee amount plus bank
\* amount is the disbursement, and the bank amount lies between 0 and the
\* disbursement.
C8_FeeAndBankAmount ==
    /\ RLe(R(0), inp.pf_percentage) /\ RLe(inp.pf_percentage, R(100))
    /\ out.calc.pf_amount = RDiv(RMul(inp.loan_amt_current, inp.pf_percentage), R(100))
    /\ RAdd(out.calc.pf_amount, out.calc.amt_in_bank) = inp.loan_amt_current
    /\ RLe(R(0), out.calc.amt_in_bank)
    /\ RLe(out.calc.amt_in_bank, inp.loan_amt_current)

\* A fee strictly between nothing and everything, away from the default amount
C8_Witness ==
    /\ inp.loan_amt_current = R(9600000)
    /\ inp.pf_percentage = Dec(118, 10)
    /\ out.calc.pf_amount = R(1132800)
    /\ out.calc.amt_in_bank = R(8467200)

\* C9: two runs on identical inputs produce identical outputs, whatever the
\* runs before them computed; only the report's generation timestamp may
\* differ.  Stated for a run and the run before it, and for a run and the
\* first run of the session.
C9_OutputsDependOnInputsOnly ==
    /\ [](inp = first.inp => Computed(out) = Computed(first.out))
    /\ [][inp' = inp => Computed(out') = Computed(out)]_vars

\* A later run on the first run's inputs, with another timestamp
C9_Witness ==
    /\ inp = first.inp
    /\ out.report.generated_on # first.out.report.generated_on
    /\ Computed(out) = Computed(first.out)

\* C10: in the breakdown table (Period and Percentage columns), the pie
\* legend, the summary table and the text report, the percentage shown for
\* each period is the weight the computation applies to that period's
\* principal plus interest.
C10_LabelsStateAppliedWeights ==
    LET c == out.calc
        due == <<RAdd(inp.loan_amt_current, c.interest_current),
                 RAdd(inp.loan_amt_t1, c.interest_t1),
                 RAdd(inp.loan_amt_t2, c.interest_t2)>>
        got == <<c.collection_current, c.collection_t1, c.collection_t2>>
        Consistent(pct) == \A p \in 1..3 : RMul(due[p], Dec(pct[p], 100)) = got[p]
    IN  /\ Consistent(out.breakdown_period_pct)
        /\ Consistent(out.breakdown_percentage_pct)
        /\ Consistent(out.pie_period_pct)
        /\ Consistent(out.summary.collection_pct)
        /\ Consistent(out.report.collection_pct)

=============================================================================
